---- MODULE Spec2Model ----
(***************************************************************************)
(* goture: a future built on context.WithCancelCause.  One future is       *)
(* modelled: the caller-supplied parent context, the constructor           *)
(* (NewGoture or NewParallelGoture), the task goroutines, the completion   *)
(* channel and the coordinator of the parallel future, and the callers of  *)
(* Wait().                                                                 *)
(***************************************************************************)
EXTENDS Naturals, Sequences, FiniteSets

(* ------------------------------ bounds --------------------------------- *)

\* Largest number of tasks handed to NewParallelGoture.
MaxTasks == 2

\* Number of goroutines that call Wait() on the future.
NumWaiters == 2

TaskIds == 1..MaxTasks

(* ------------------------------ values --------------------------------- *)

\* A Go value is a record: its dynamic type and the text it prints as.
\* The nil error.
Nil == [type |-> "nil", msg |-> <<>>]

\* The cause of a context that is not canceled (context.Cause returns nil).
Unset == [type |-> "unset", msg |-> <<>>]

\* goture.SuccessResult{}: an exported type that implements error, Error() is "".
SuccessResult == [type |-> "SuccessResult", msg |-> <<>>]

\* context.Canceled and context.DeadlineExceeded.
Canceled == [type |-> "context.Canceled", msg |-> <<"context canceled">>]
DeadlineExceeded == [type |-> "context.DeadlineExceeded", msg |-> <<"context deadline exceeded">>]

\* The error of task i, one distinct value per task.
TaskErr(i) == [type |-> "taskError", msg |-> <<"task", i>>]

\* A panic value that is not an error (a string), one per task.
PanicText(i) == [type |-> "string", msg |-> <<"boom", i>>]

\* The dynamic types that implement the error interface.
ErrorTypes == {"SuccessResult", "context.Canceled", "context.DeadlineExceeded",
               "taskError", "errorString"}

\* r.(error): the type assertion of the recover helpers.
IsError(r) == r.type \in ErrorTypes

\* What a task body may return: nil or an error value of the caller's choice.
TaskReturns(i) == {Nil, TaskErr(i), SuccessResult}

\* What a task body may panic with: an error value or a non-error value.
TaskPanics(i) == {TaskErr(i), SuccessResult, PanicText(i)}

\* The causes the caller-supplied parent context can be canceled with: plain
\* cancellation, a deadline, or, when the parent is itself the context of an
\* enclosing future that completed, that future's SuccessResult cause.
ParentCauses == {Canceled, DeadlineExceeded, SuccessResult}

(* ----------------------------- operators ------------------------------- *)

\* fmt.Errorf("%v", r): a fresh error whose message is the text of r.
Errorf(r) == [type |-> "errorString", msg |-> r.msg]

\* makeErrorFromPanic: the conversion both recover helpers apply.
makeErrorFromPanic(r) == IF IsError(r) THEN r ELSE Errorf(r)

\* A cancel function whose last call wins instead of its first.
cancelLastWins(cur, err) == IF err = Nil THEN Canceled ELSE err

\* The CancelCauseFunc of context.WithCancelCause: the first call sets the
\* cause, later calls do nothing; a nil cause is recorded as context.Canceled.
cancel(cur, err) ==
    IF cur # Unset THEN cur
    ELSE IF err = Nil THEN Canceled ELSE err

\* A Wait() that returns the cause without unwrapping the sentinel.
WaitResultRaw(cause) == cause

\* Goture.Wait after <-ctx.Done(): the translation of the cause.
WaitResult(cause) == IF cause.type = "SuccessResult" THEN Nil ELSE cause

(* ------------------------------- state --------------------------------- *)

VARIABLES
    parentCause,   \* cause of the caller-supplied context, Unset while live
    ctor,          \* constructor position: "init", "derived0", "returned"
    kind,          \* "none", "single" (NewGoture), "parallel" (NewParallelGoture),
                   \* "parallelResult" (NewParallelWithResult)
    n,             \* len(tasks)
    ctxCause,      \* cause of localCtx, Unset while not done
    committedBy,   \* who set ctxCause: "none", "parent", "ctor", "task", "coordinator"
    taskPc,        \* per task goroutine: "unborn", "running", "returned", "panicking", "exited"
    taskHow,       \* per task: how its body ended: "none", "return", "panic"
    taskVal,       \* per task: the value it returned or panicked with
    completed,     \* the buffered channel of capacity len(tasks)
    coordPc,       \* coordinator goroutine: "unborn", "recv", "commit", "exited"
    coordI,        \* the coordinator's loop counter i
    firstError,    \* the coordinator's firstError
    waitBlocked,   \* number of callers blocked inside Wait()
    waitReturned,  \* number of callers whose latest Wait() call has returned
    waitRet,       \* the set of values the Wait() calls have returned so far
    results,       \* result-bearing parallel future: the slice of results
    arrival,       \* result-bearing parallel future: task indices in reporting order
    waitVals       \* result-bearing future: the slices its Wait() calls returned

vars == <<parentCause, ctor, kind, n, ctxCause, committedBy, taskPc, taskHow, taskVal,
          completed, coordPc, coordI, firstError, waitBlocked, waitReturned, waitRet,
          results, arrival, waitVals>>

ctxVars == <<ctxCause, committedBy>>
taskVars == <<taskPc, taskHow, taskVal>>
coordVars == <<coordPc, coordI, firstError>>
waitVars == <<waitBlocked, waitReturned, waitRet>>
ctorVars == <<ctor, kind, n>>
resultVars == <<results, arrival, waitVals>>

\* ctx.Done() is closed.
Done == ctxCause # Unset

Init ==
    /\ parentCause = Unset
    /\ ctor = "init"
    /\ kind = "none"
    /\ n = 0
    /\ ctxCause = Unset
    /\ committedBy = "none"
    /\ taskPc = [i \in TaskIds |-> "unborn"]
    /\ taskHow = [i \in TaskIds |-> "none"]
    /\ taskVal = [i \in TaskIds |-> Unset]
    /\ completed = <<>>
    /\ coordPc = "unborn"
    /\ coordI = 0
    /\ firstError = Nil
    /\ waitBlocked = 0
    /\ waitReturned = 0
    /\ waitRet = {}
    /\ results = <<>>
    /\ arrival = <<>>
    /\ waitVals = {}

(* --------------------------- parent context ---------------------------- *)

\* A parent cancellation that replaces a cause already committed on localCtx.
ParentCancelOverwrites(c) ==
    /\ parentCause = Unset
    /\ parentCause' = c
    /\ IF ctor # "init"
       THEN ctxCause' = c /\ committedBy' = "parent"
       ELSE UNCHANGED ctxVars
    /\ UNCHANGED <<resultVars, ctorVars, taskVars, completed, coordVars, waitVars>>

\* A parent cancellation that also ends the goroutines of the running tasks.
ParentCancelKillsTasks(c) ==
    /\ parentCause = Unset
    /\ parentCause' = c
    /\ IF ctor # "init" /\ ctxCause = Unset
       THEN ctxCause' = c /\ committedBy' = "parent"
       ELSE UNCHANGED ctxVars
    /\ taskPc' = [i \in TaskIds |-> IF taskPc[i] = "running" THEN "exited" ELSE taskPc[i]]
    /\ UNCHANGED <<resultVars, ctorVars, taskHow, taskVal, completed, coordVars, waitVars>>

\* The caller cancels the parent context (or its deadline expires) with
\* cause c.  A derived localCtx that is not yet done takes the same cause.
ParentCancel(c) ==
    /\ parentCause = Unset
    /\ parentCause' = c
    /\ IF ctor # "init" /\ ctxCause = Unset
       THEN ctxCause' = c /\ committedBy' = "parent"
       ELSE UNCHANGED ctxVars
    /\ UNCHANGED <<resultVars, ctorVars, taskVars, completed, coordVars, waitVars>>

\* context.WithCancelCause(parent): the child of a canceled parent is born
\* canceled with the parent's cause.
Derived == IF parentCause # Unset THEN "parent" ELSE "none"

(* ----------------------------- constructors ---------------------------- *)

\* A NewGoture that returns the future without starting the goroutine.
NewGotureLazy ==
    /\ ctor = "init"
    /\ ctor' = "returned"
    /\ kind' = "single"
    /\ n' = 1
    /\ ctxCause' = parentCause
    /\ committedBy' = Derived
    /\ UNCHANGED <<resultVars, parentCause, taskVars, completed, coordVars, waitVars>>

\* NewGoture(ctx, fn): derive localCtx, start the goroutine, return.
NewGoture ==
    /\ ctor = "init"
    /\ ctor' = "returned"
    /\ kind' = "single"
    /\ n' = 1
    /\ ctxCause' = parentCause
    /\ committedBy' = Derived
    /\ taskPc' = [taskPc EXCEPT ![1] = "running"]
    /\ UNCHANGED <<resultVars, parentCause, taskHow, taskVal, completed, coordVars, waitVars>>

\* NewParallelGoture(parentCtx) with no tasks, first statement: derive localCtx.
NewParallelGotureEmpty ==
    /\ ctor = "init"
    /\ ctor' = "derived0"
    /\ kind' = "parallel"
    /\ n' = 0
    /\ ctxCause' = parentCause
    /\ committedBy' = Derived
    /\ UNCHANGED <<resultVars, parentCause, taskVars, completed, coordVars, waitVars>>

\* An empty-list branch that calls cancel(nil) instead of cancel(SuccessResult{}).
NewParallelGotureEmptyCommitNil ==
    /\ ctor = "derived0"
    /\ ctor' = "returned"
    /\ ctxCause' = cancel(ctxCause, Nil)
    /\ committedBy' = IF ctxCause = Unset THEN "ctor" ELSE committedBy
    /\ UNCHANGED <<resultVars, parentCause, kind, n, taskVars, completed, coordVars, waitVars>>

\* NewParallelGoture with no tasks, second statement: cancel(SuccessResult{}), return.
NewParallelGotureEmptyCommit ==
    /\ ctor = "derived0"
    /\ ctor' = "returned"
    /\ ctxCause' = cancel(ctxCause, SuccessResult)
    /\ committedBy' = IF ctxCause = Unset THEN "ctor" ELSE committedBy
    /\ UNCHANGED <<resultVars, parentCause, kind, n, taskVars, completed, coordVars, waitVars>>

\* A NewParallelGoture whose coordinator skips its receive loop.
NewParallelGotureNoLoop(k) ==
    /\ ctor = "init"
    /\ k >= 1
    /\ ctor' = "returned"
    /\ kind' = "parallel"
    /\ n' = k
    /\ ctxCause' = parentCause
    /\ committedBy' = Derived
    /\ taskPc' = [i \in TaskIds |-> IF i <= k THEN "running" ELSE "unborn"]
    /\ completed' = <<>>
    /\ coordPc' = "commit"
    /\ coordI' = 0
    /\ firstError' = Nil
    /\ UNCHANGED <<resultVars, parentCause, taskHow, taskVal, waitVars>>

\* NewParallelGoture(parentCtx, tasks...) with k >= 1 tasks: derive localCtx,
\* make the channel, start one goroutine per task and the coordinator, return.
NewParallelGoture(k) ==
    /\ ctor = "init"
    /\ k >= 1
    /\ ctor' = "returned"
    /\ kind' = "parallel"
    /\ n' = k
    /\ ctxCause' = parentCause
    /\ committedBy' = Derived
    /\ taskPc' = [i \in TaskIds |-> IF i <= k THEN "running" ELSE "unborn"]
    /\ completed' = <<>>
    /\ coordPc' = "recv"
    /\ coordI' = 0
    /\ firstError' = Nil
    /\ UNCHANGED <<resultVars, parentCause, taskHow, taskVal, waitVars>>

(* ----------------------------- task bodies ----------------------------- *)

\* The task body fn(localCtx) returns e.
TaskReturn(i, e) ==
    /\ taskPc[i] = "running"
    /\ taskPc' = [taskPc EXCEPT ![i] = "returned"]
    /\ taskHow' = [taskHow EXCEPT ![i] = "return"]
    /\ taskVal' = [taskVal EXCEPT ![i] = e]
    /\ UNCHANGED <<resultVars, parentCause, ctorVars, ctxVars, completed, coordVars, waitVars>>

\* The task body panics with r; the deferred recover helper runs next.
TaskPanic(i, r) ==
    /\ taskPc[i] = "running"
    /\ taskPc' = [taskPc EXCEPT ![i] = "panicking"]
    /\ taskHow' = [taskHow EXCEPT ![i] = "panic"]
    /\ taskVal' = [taskVal EXCEPT ![i] = r]
    /\ UNCHANGED <<resultVars, parentCause, ctorVars, ctxVars, completed, coordVars, waitVars>>

\* What the goroutine of NewGoture passes to cancel after fn returned err.
SingleCause(err) == IF err # Nil THEN err ELSE SuccessResult

\* A commit that cancels the caller's context along with localCtx.
SingleCommitCancelsParent ==
    /\ kind = "single"
    /\ taskPc[1] = "returned"
    /\ ctxCause' = cancel(ctxCause, SingleCause(taskVal[1]))
    /\ parentCause' = cancel(parentCause, SingleCause(taskVal[1]))
    /\ committedBy' = IF ctxCause = Unset THEN "task" ELSE committedBy
    /\ taskPc' = [taskPc EXCEPT ![1] = "exited"]
    /\ UNCHANGED <<resultVars, ctorVars, taskHow, taskVal, completed, coordVars, waitVars>>

\* NewGoture's goroutine after fn returned: cancel(err) or cancel(SuccessResult{}).
SingleCommit ==
    /\ kind = "single"
    /\ taskPc[1] = "returned"
    /\ ctxCause' = cancel(ctxCause, SingleCause(taskVal[1]))
    /\ committedBy' = IF ctxCause = Unset THEN "task" ELSE committedBy
    /\ taskPc' = [taskPc EXCEPT ![1] = "exited"]
    /\ UNCHANGED <<resultVars, parentCause, ctorVars, taskHow, taskVal, completed, coordVars, waitVars>>

\* recoverCancel(cancel), deferred in NewGoture's goroutine, after a panic.
recoverCancel ==
    /\ kind = "single"
    /\ taskPc[1] = "panicking"
    /\ ctxCause' = cancel(ctxCause, makeErrorFromPanic(taskVal[1]))
    /\ committedBy' = IF ctxCause = Unset THEN "task" ELSE committedBy
    /\ taskPc' = [taskPc EXCEPT ![1] = "exited"]
    /\ UNCHANGED <<resultVars, parentCause, ctorVars, taskHow, taskVal, completed, coordVars, waitVars>>

\* A send on the buffered channel: possible while it holds fewer than n values.
CanSend == Len(completed) < n

\* A task goroutine of NewParallelGoture: completed <- task(localCtx).
ParallelSend(i) ==
    /\ kind = "parallel"
    /\ taskPc[i] = "returned"
    /\ CanSend
    /\ completed' = Append(completed, taskVal[i])
    /\ taskPc' = [taskPc EXCEPT ![i] = "exited"]
    /\ UNCHANGED <<resultVars, parentCause, ctorVars, ctxVars, taskHow, taskVal, coordVars, waitVars>>

\* A recover helper that swallows the panic without reporting to the channel.
recoverCancelForParallelSilent(i) ==
    /\ kind = "parallel"
    /\ taskPc[i] = "panicking"
    /\ taskPc' = [taskPc EXCEPT ![i] = "exited"]
    /\ UNCHANGED <<resultVars, parentCause, ctorVars, ctxVars, taskHow, taskVal, completed, coordVars, waitVars>>

\* A recover helper that formats every panic value, error or not.
recoverCancelForParallelAlwaysFormats(i) ==
    /\ kind = "parallel"
    /\ taskPc[i] = "panicking"
    /\ CanSend
    /\ completed' = Append(completed, Errorf(taskVal[i]))
    /\ taskPc' = [taskPc EXCEPT ![i] = "exited"]
    /\ UNCHANGED <<resultVars, parentCause, ctorVars, ctxVars, taskHow, taskVal, coordVars, waitVars>>

\* recoverCancelForParallel(completed), deferred in a task goroutine, after a panic.
recoverCancelForParallel(i) ==
    /\ kind = "parallel"
    /\ taskPc[i] = "panicking"
    /\ CanSend
    /\ completed' = Append(completed, makeErrorFromPanic(taskVal[i]))
    /\ taskPc' = [taskPc EXCEPT ![i] = "exited"]
    /\ UNCHANGED <<resultVars, parentCause, ctorVars, ctxVars, taskHow, taskVal, coordVars, waitVars>>

(* ----------------------------- coordinator ----------------------------- *)

\* if err := <-completed; err != nil && firstError == nil { firstError = err }
NextFirstError(cur, err) == IF err # Nil /\ cur = Nil THEN err ELSE cur

\* A fail-fast coordinator: it leaves the loop at the first non-nil report.
CoordRecvFailFast ==
    /\ coordPc = "recv"
    /\ coordI < n
    /\ completed # <<>>
    /\ firstError' = NextFirstError(firstError, Head(completed))
    /\ completed' = Tail(completed)
    /\ coordI' = coordI + 1
    /\ coordPc' = IF coordI + 1 < n /\ Head(completed) = Nil THEN "recv" ELSE "commit"
    /\ UNCHANGED <<resultVars, parentCause, ctorVars, ctxVars, taskVars, waitVars>>

\* A coordinator whose loop runs one iteration short (i < len(tasks)-1).
CoordRecvOneShort ==
    /\ coordPc = "recv"
    /\ coordI < n
    /\ completed # <<>>
    /\ firstError' = NextFirstError(firstError, Head(completed))
    /\ completed' = Tail(completed)
    /\ coordI' = coordI + 1
    /\ coordPc' = IF coordI + 2 < n THEN "recv" ELSE "commit"
    /\ UNCHANGED <<resultVars, parentCause, ctorVars, ctxVars, taskVars, waitVars>>

\* One iteration of the coordinator's loop: receive one report.
CoordRecv ==
    /\ coordPc = "recv"
    /\ coordI < n
    /\ completed # <<>>
    /\ firstError' = NextFirstError(firstError, Head(completed))
    /\ completed' = Tail(completed)
    /\ coordI' = coordI + 1
    /\ coordPc' = IF coordI + 1 < n THEN "recv" ELSE "commit"
    /\ UNCHANGED <<resultVars, parentCause, ctorVars, ctxVars, taskVars, waitVars>>

\* What the coordinator passes to cancel after the loop.
CoordCause(first) == IF first # Nil THEN first ELSE SuccessResult

\* A coordinator that cancels only on an error and otherwise just exits.
CoordCommitErrorOnly ==
    /\ coordPc = "commit"
    /\ ctxCause' = IF firstError # Nil THEN cancel(ctxCause, firstError) ELSE ctxCause
    /\ committedBy' = IF ctxCause = Unset /\ firstError # Nil THEN "coordinator" ELSE committedBy
    /\ coordPc' = "exited"
    /\ UNCHANGED <<resultVars, parentCause, ctorVars, taskVars, completed, coordI, firstError, waitVars>>

\* After the loop: cancel(firstError) or cancel(SuccessResult{}).
CoordCommit ==
    /\ coordPc = "commit"
    /\ ctxCause' = cancel(ctxCause, CoordCause(firstError))
    /\ committedBy' = IF ctxCause = Unset THEN "coordinator" ELSE committedBy
    /\ coordPc' = "exited"
    /\ UNCHANGED <<resultVars, parentCause, ctorVars, taskVars, completed, coordI, firstError, waitVars>>

(* -------------------------------- Wait --------------------------------- *)

\* A caller that holds the future calls Wait() for the first time and blocks
\* on <-f.ctx.Done().
WaitCall ==
    /\ ctor = "returned"
    /\ waitBlocked + waitReturned < NumWaiters
    /\ waitBlocked' = waitBlocked + 1
    /\ UNCHANGED <<resultVars, parentCause, ctorVars, ctxVars, taskVars, completed, coordVars,
                   waitReturned, waitRet>>

\* A caller whose Wait() has returned calls Wait() again.
WaitAgain ==
    /\ waitReturned > 0
    /\ waitReturned' = waitReturned - 1
    /\ waitBlocked' = waitBlocked + 1
    /\ UNCHANGED <<resultVars, parentCause, ctorVars, ctxVars, taskVars, completed, coordVars, waitRet>>

\* A Wait() that reads the cause without blocking on Done().
WaitReturnNoBlock ==
    /\ waitBlocked > 0
    /\ waitBlocked' = waitBlocked - 1
    /\ waitReturned' = waitReturned + 1
    /\ waitRet' = waitRet \cup {WaitResult(ctxCause)}
    /\ UNCHANGED <<resultVars, parentCause, ctorVars, ctxVars, taskVars, completed, coordVars>>

\* Done() is closed: a blocked Wait() reads the cause and returns its translation.
WaitReturn ==
    /\ waitBlocked > 0
    /\ Done
    /\ waitBlocked' = waitBlocked - 1
    /\ waitReturned' = waitReturned + 1
    /\ waitRet' = waitRet \cup {WaitResult(ctxCause)}
    /\ UNCHANGED <<resultVars, parentCause, ctorVars, ctxVars, taskVars, completed, coordVars>>

(* ---------------------- result-bearing parallel future ----------------- *)

\* The value task i yields when it returns no error.
Yield(i) == 10 * i

\* NewParallelWithResult(parentCtx, tasks...) with k >= 1 tasks: as
\* NewParallelGoture, with a slice of k default-valued results.
NewParallelWithResult(k) ==
    /\ ctor = "init"
    /\ k >= 1
    /\ ctor' = "returned"
    /\ kind' = "parallelResult"
    /\ n' = k
    /\ ctxCause' = parentCause
    /\ committedBy' = Derived
    /\ taskPc' = [i \in TaskIds |-> IF i <= k THEN "running" ELSE "unborn"]
    /\ completed' = <<>>
    /\ coordPc' = "recv"
    /\ coordI' = 0
    /\ firstError' = Nil
    /\ results' = [i \in 1..k |-> 0]
    /\ arrival' = <<>>
    /\ UNCHANGED <<parentCause, taskHow, taskVal, waitVars, waitVals>>

\* A slot assignment by completion order: the next free position.
ResultSlotByArrival(i) == Len(arrival) + 1

\* The position of the slice that holds the result of task i: its own index.
ResultSlot(i) == i

\* The value task i hands back together with its error e.
ResultValue(i, e) == IF e = Nil THEN Yield(i) ELSE 0

\* A task goroutine after its task returned (value, err): store the value in
\* the task's slot, then report err on the channel.
ResultSend(i) ==
    /\ kind = "parallelResult"
    /\ taskPc[i] = "returned"
    /\ CanSend
    /\ results' = [results EXCEPT ![ResultSlot(i)] = ResultValue(i, taskVal[i])]
    /\ arrival' = Append(arrival, i)
    /\ completed' = Append(completed, taskVal[i])
    /\ taskPc' = [taskPc EXCEPT ![i] = "exited"]
    /\ UNCHANGED <<parentCause, ctorVars, ctxVars, taskHow, taskVal, coordVars, waitVars, waitVals>>

\* The panic boundary of a result-bearing task: report the converted panic
\* value; the task's slot keeps its default value.
ResultRecover(i) ==
    /\ kind = "parallelResult"
    /\ taskPc[i] = "panicking"
    /\ CanSend
    /\ arrival' = Append(arrival, i)
    /\ completed' = Append(completed, makeErrorFromPanic(taskVal[i]))
    /\ taskPc' = [taskPc EXCEPT ![i] = "exited"]
    /\ UNCHANGED <<parentCause, ctorVars, ctxVars, taskHow, taskVal, coordVars, waitVars,
                   results, waitVals>>

\* Wait() of the result-bearing future returns: (results, translated cause).
ResultWaitReturn ==
    /\ kind = "parallelResult"
    /\ waitBlocked > 0
    /\ Done
    /\ waitBlocked' = waitBlocked - 1
    /\ waitReturned' = waitReturned + 1
    /\ waitRet' = waitRet \cup {WaitResult(ctxCause)}
    /\ waitVals' = waitVals \cup {results}
    /\ UNCHANGED <<parentCause, ctorVars, ctxVars, taskVars, completed, coordVars,
                   results, arrival>>

(* ------------------------------ the system ----------------------------- *)

Next ==
    \/ \E c \in ParentCauses : ParentCancel(c)
    \/ NewGoture
    \/ NewParallelGotureEmpty
    \/ NewParallelGotureEmptyCommit
    \/ \E k \in 1..MaxTasks : NewParallelGoture(k)
    \/ \E i \in TaskIds : \E e \in TaskReturns(i) : TaskReturn(i, e)
    \/ \E i \in TaskIds : \E r \in TaskPanics(i) : TaskPanic(i, r)
    \/ SingleCommit
    \/ recoverCancel
    \/ \E i \in TaskIds : ParallelSend(i)
    \/ \E i \in TaskIds : recoverCancelForParallel(i)
    \/ CoordRecv
    \/ CoordCommit
    \/ WaitCall
    \/ WaitAgain
    \/ WaitReturn
    \/ \E k \in 1..MaxTasks : NewParallelWithResult(k)
    \/ \E i \in TaskIds : ResultSend(i)
    \/ \E i \in TaskIds : ResultRecover(i)
    \/ ResultWaitReturn

Spec == Init /\ [][Next]_vars

(* --------------------------- fair scheduling --------------------------- *)

\* Termination depends on how a task ends and on whether the parent is
\* canceled, not on which error values are involved: the fair specification
\* draws them from the smallest sets that keep every way apart.
\* A task returns nil or an error.
FairReturns(i) == {Nil, TaskErr(i)}

\* A task panics with an error value or with a non-error value.
FairPanics(i) == {TaskErr(i), PanicText(i)}

\* The parent context is canceled, if ever, with context.Canceled.
FairParentCauses == {Canceled}

\* The body of task i ends: it returns or it panics.
TaskEnds(i) ==
    \/ \E e \in FairReturns(i) : TaskReturn(i, e)
    \/ \E r \in FairPanics(i) : TaskPanic(i, r)

\* The futures of NewGoture and NewParallelGoture with their callers.
FairNext ==
    \/ \E c \in FairParentCauses : ParentCancel(c)
    \/ NewGoture
    \/ NewParallelGotureEmpty
    \/ NewParallelGotureEmptyCommit
    \/ \E k \in 1..MaxTasks : NewParallelGoture(k)
    \/ \E i \in TaskIds : TaskEnds(i)
    \/ SingleCommit
    \/ recoverCancel
    \/ \E i \in TaskIds : ParallelSend(i)
    \/ \E i \in TaskIds : recoverCancelForParallel(i)
    \/ CoordRecv
    \/ CoordCommit
    \/ WaitCall
    \/ WaitAgain
    \/ WaitReturn

\* Fair scheduling: a goroutine of the library that can take its next step
\* eventually takes it (the Go scheduler starves no runnable goroutine), a
\* constructor runs to its return, and a Wait() woken by Done() returns.
Scheduling ==
    /\ WF_vars(NewParallelGotureEmptyCommit)
    /\ WF_vars(SingleCommit)
    /\ WF_vars(recoverCancel)
    /\ \A i \in TaskIds : WF_vars(ParallelSend(i))
    /\ \A i \in TaskIds : WF_vars(recoverCancelForParallel(i))
    /\ WF_vars(CoordRecv)
    /\ WF_vars(CoordCommit)
    /\ WF_vars(WaitReturn)

\* The hypothesis on the caller's tasks: every task body eventually ends.
TasksTerminate == \A i \in TaskIds : WF_vars(TaskEnds(i))

\* The program under fair scheduling with terminating tasks.  Nothing forces
\* the parent context to be canceled, or anybody to call Wait().
FairSpec == Init /\ [][FairNext]_vars /\ Scheduling /\ TasksTerminate

(* ------------------------------ vocabulary ----------------------------- *)

\* The tasks of the future.
Tasks == 1..n

\* The body of task i has ended by returning e / by panicking / either way.
ReturnedWith(i, e) == taskHow[i] = "return" /\ taskVal[i] = e
Panicked(i) == taskHow[i] = "panic"
Finished(i) == taskHow[i] # "none"

\* Task i failed: it returned a non-nil error or it panicked.
Failed(i) == \/ taskHow[i] = "return" /\ taskVal[i] # Nil
             \/ Panicked(i)

\* What task i reports: its return value, or its converted panic value.
Report(i) == IF Panicked(i) THEN makeErrorFromPanic(taskVal[i]) ELSE taskVal[i]

\* The cause of localCtx was set by the parent's cancellation.
ParentWon == committedBy = "parent"

\* No goroutine of the library exists.
NoGoroutine == /\ \A i \in TaskIds : taskPc[i] = "unborn"
               /\ coordPc = "unborn"

(* -------------------------------- claims ------------------------------- *)

\* C1: for a NewGoture future whose task returned a non-nil error E, with the
\* parent not canceled before the task's outcome was committed, every Wait()
\* returns exactly E.
C1_WaitReturnsExactlyE ==
    (/\ kind = "single"
     /\ taskHow[1] = "return"
     /\ taskVal[1] # Nil
     /\ ~ParentWon)
    => waitRet \subseteq {taskVal[1]}

\* C2: when a task of NewParallelGoture has failed and the parent did not
\* cancel the shared context, no Wait() returns nil, and the shared context
\* is not done while a sibling has not finished.
C2_FailureReportedSiblingsRun ==
    (/\ kind = "parallel"
     /\ \E i \in Tasks : Failed(i)
     /\ ~ParentWon)
    => /\ Nil \notin waitRet
       /\ Done => \A i \in Tasks : Finished(i)

\* C3: for NewParallelGoture with N >= 1 tasks none of which returns an error,
\* no Wait() has returned nil while some task has not yet returned.
C3_NilOnlyAfterAllFinish ==
    (/\ kind = "parallel"
     /\ n >= 1
     /\ \A i \in Tasks : ~Finished(i) \/ ReturnedWith(i, Nil)
     /\ Nil \in waitRet)
    => \A i \in Tasks : Finished(i)

\* C4: when several tasks of NewParallelGoture have failed and the coordinator
\* has drained all reports (the parent not having canceled the context first),
\* Wait() returns the first non-nil error the coordinator received, and that
\* error is the report of one of the failed tasks.
C4_WaitReturnsFirstArrivedError ==
    (/\ kind = "parallel"
     /\ Cardinality({i \in Tasks : Failed(i)}) >= 2
     /\ coordPc \in {"commit", "exited"}
     /\ ~ParentWon)
    => /\ firstError \in {Report(i) : i \in {j \in Tasks : Failed(j)}}
       /\ waitRet \subseteq {firstError}

\* C5: when a task has panicked with value V (the parent not having canceled
\* the context first), Wait() returns a non-nil error; for a NewGoture future
\* it is the error made from V.
C5_PanicBecomesError ==
    (/\ \E i \in Tasks : Panicked(i)
     /\ ~ParentWon)
    => /\ Nil \notin waitRet
       /\ kind = "single" => waitRet \subseteq {makeErrorFromPanic(taskVal[1])}

\* C6: when the parent context was canceled before the future completed,
\* Wait() returns the parent's cancellation error.
C6_WaitReturnsParentError ==
    ParentWon => /\ ctxCause = parentCause
                 /\ waitRet \subseteq {parentCause}

\* C7 as stated: NewParallelGoture with zero tasks has returned => the future
\* is committed to Success, Wait() returns nil, and no goroutine was spawned.
C7_EmptyAlwaysSuccess ==
    (kind = "parallel" /\ n = 0 /\ ctor = "returned")
    => /\ ctxCause = SuccessResult
       /\ waitRet \subseteq {Nil}
       /\ NoGoroutine

\* C7 as amended: NewParallelGoture with zero tasks has returned => the future
\* is already done (Wait() does not block) and no goroutine was spawned; it is
\* committed to Success by the constructor, and Wait() returns nil, unless the
\* parent was canceled before the constructor's cancel(SuccessResult{}), in
\* which case it carries the parent's cause.
C7_EmptyDoneAtReturn ==
    (kind = "parallel" /\ n = 0 /\ ctor = "returned")
    => /\ Done
       /\ NoGoroutine
       /\ committedBy \in {"ctor", "parent"}
       /\ committedBy = "ctor" => ctxCause = SuccessResult /\ waitRet \subseteq {Nil}
       /\ committedBy = "parent" => ctxCause = parentCause

\* C7 witness: an empty parallel future, committed by its constructor, whose
\* Wait() has returned nil.
C7_Witness ==
    /\ kind = "parallel" /\ n = 0 /\ ctor = "returned"
    /\ committedBy = "ctor"
    /\ waitRet = {Nil}

\* C8: all calls of Wait() on the future, by any caller and at any time,
\* return one and the same outcome.
C8_WaitIdenticalOutcome == Cardinality(waitRet) <= 1

\* C8 witness: every caller's Wait() has returned, on a future whose task
\* outcome was committed and whose parent was canceled as well.
C8_Witness ==
    /\ waitReturned = NumWaiters
    /\ waitRet # {}
    /\ committedBy \in {"task", "coordinator"}
    /\ parentCause # Unset

\* C9: once the cause of the future's context is set it never changes, nor
\* does the party that set it: a parent cancellation after the commit and a
\* commit after the parent cancellation both leave it as it is.
C9_FirstCommitWins ==
    [][ctxCause # Unset => (ctxCause' = ctxCause /\ committedBy' = committedBy)]_vars

\* C9 witness: the parent's cancellation came first and the coordinator's
\* later commit of a task error left the parent's cause in place.
C9_Witness ==
    /\ ParentWon
    /\ coordPc = "exited"
    /\ firstError # Nil
    /\ ctxCause = parentCause
    /\ ctxCause # firstError

\* C10: with the parent never canceled and no task having returned an error
\* or panicked, Wait() returns nil, and a committed cause is the sentinel.
C10_NoErrorWaitNil ==
    (/\ ctor = "returned"
     /\ parentCause = Unset
     /\ \A i \in Tasks : ~Finished(i) \/ ReturnedWith(i, Nil))
    => /\ waitRet \subseteq {Nil}
       /\ Done => ctxCause = SuccessResult

\* C10 witness: a parallel future of at least two tasks that all returned
\* nil, parent not canceled, whose Wait() has returned nil.
C10_Witness ==
    /\ kind = "parallel" /\ n >= 2
    /\ parentCause = Unset
    /\ \A i \in Tasks : ReturnedWith(i, Nil)
    /\ waitRet = {Nil}

\* The number of reports the task goroutines have put on the channel so far:
\* those still buffered and those the coordinator has taken.
ReportsSent == Len(completed) + coordI

\* The task goroutines that have ended.
Exited == {i \in Tasks : taskPc[i] = "exited"}

\* C11 as stated: the context of a NewParallelGoture future is done only
\* after every one of its tasks has completed.
C11_DoneOnlyAfterAllTasks ==
    (kind = "parallel" /\ Done) => \A i \in Tasks : Finished(i)

\* C11 as amended: unless the parent's cancellation made it done, the context
\* of a NewParallelGoture future is done (and a Wait() has returned) only
\* after every task has completed and reported.
C11_DoneOnlyAfterAllTasksUnlessParent ==
    (kind = "parallel" /\ Done /\ ~ParentWon)
    => \A i \in Tasks : Finished(i) /\ taskPc[i] = "exited"

\* C11 witness: a parallel future of several tasks, done by the coordinator's
\* commit, whose Wait() has returned.
C11_Witness ==
    /\ kind = "parallel" /\ n >= 2
    /\ committedBy = "coordinator"
    /\ waitRet # {}

C13_WaitOnlyAfterCommit ==
    (waitReturned > 0 \/ waitRet # {})
    => /\ ctxCause # Unset
       /\ committedBy # "none"
       /\ waitRet = {WaitResult(ctxCause)}

\* C13 witness: Wait() has returned on a future made done by the parent's
\* cancellation while its task was still running.
C13_Witness ==
    /\ waitReturned > 0
    /\ ParentWon
    /\ \E i \in Tasks : taskPc[i] = "running"

\* C14: Wait() never returns a SuccessResult value; when the committed cause
\* is the sentinel, Wait() returns nil.
C14_SentinelNeverExposed ==
    /\ \A r \in waitRet : r.type # "SuccessResult"
    /\ (ctxCause = SuccessResult) => waitRet \subseteq {Nil}

\* C14 witness: the sentinel is the committed cause and Wait() returned nil.
C14_Witness ==
    /\ ctxCause = SuccessResult
    /\ committedBy \in {"task", "coordinator"}
    /\ waitRet = {Nil}

\* The message the README documents for a recovered panic with value r.
DocumentedPanicMsg(r) == <<"panic recovered: ">> \o r.msg

\* C15: a NewGoture task that panicked with a non-error value V (the parent
\* not having canceled first) makes Wait() return an error whose message is
\* "panic recovered: " followed by the text of V.
C15_PanicRecoveredPrefix ==
    (/\ kind = "single"
     /\ Panicked(1)
     /\ ~IsError(taskVal[1])
     /\ ~ParentWon)
    => \A r \in waitRet : r.msg = DocumentedPanicMsg(taskVal[1])

\* C16: when a constructor has returned, every task's goroutine (and, for a
\* non-empty parallel future, the coordinator) has been started, whether or
\* not anybody calls Wait().
C16_StartedAtConstruction ==
    (ctor = "returned")
    => /\ \A i \in Tasks : taskPc[i] # "unborn"
       /\ (kind = "parallel" /\ n >= 1) => coordPc # "unborn"

\* C16 witness: all tasks and the coordinator ran to their end and the cause
\* was committed although Wait() was never called.
C16_Witness ==
    /\ kind = "parallel" /\ n >= 2
    /\ Exited = Tasks
    /\ coordPc = "exited"
    /\ committedBy = "coordinator"
    /\ waitBlocked = 0 /\ waitReturned = 0 /\ waitRet = {}

\* C18: in NewParallelGoture every ended task goroutine has put exactly one
\* report on the channel and no other report exists, so at most N reports are
\* sent; the channel is never over capacity and a goroutine that is about to
\* send can always do so.
C18_OneReportPerTask ==
    (kind = "parallel")
    => /\ ReportsSent = Cardinality(Exited)
       /\ Len(completed) <= n
       /\ \A i \in Tasks : taskPc[i] = "returned" => ENABLED ParallelSend(i)
       /\ \A i \in Tasks : taskPc[i] = "panicking" => ENABLED recoverCancelForParallel(i)

\* C18 witness: one task returned and one panicked, both reports sit in the
\* channel, which is at capacity, before the coordinator took any.
C18_Witness ==
    /\ kind = "parallel" /\ n >= 2
    /\ taskHow[1] = "return" /\ taskHow[2] = "panic"
    /\ Exited = Tasks
    /\ Len(completed) = n
    /\ coordI = 0

\* C19: the coordinator reaches its commit only after exactly N reports, also
\* when it already holds an error and when the parent was canceled meanwhile;
\* what it commits is firstError if a report was non-nil, else Success, and a
\* cause it set is exactly that value.
C19_CommitAfterNReports ==
    /\ coordPc \in {"commit", "exited"}
       => /\ coordI = n
          /\ completed = <<>>
          /\ Exited = Tasks
          /\ (firstError = Nil) <=> (\A i \in Tasks : Report(i) = Nil)
    /\ coordPc = "recv" => committedBy # "coordinator"
    /\ committedBy = "coordinator"
       => /\ coordPc = "exited"
          /\ ctxCause = CoordCause(firstError)

\* C19 witness: the parent was canceled while the coordinator already held an
\* error, and the coordinator still drained all N reports before its commit.
C19_Witness ==
    /\ kind = "parallel" /\ n >= 2
    /\ ParentWon
    /\ firstError # Nil
    /\ coordPc = "exited"
    /\ coordI = n

\* C20: when Wait() on a parallel future has returned nil (the parent not
\* having canceled the context), every task has returned a nil error.
C20_NilOnlyIfAllSucceeded ==
    (/\ kind = "parallel"
     /\ ~ParentWon
     /\ Nil \in waitRet)
    => \A i \in Tasks : ReturnedWith(i, Nil)

\* C17: for a NewParallelWithResult future the slot of every task holds that
\* task's value or the default, whatever the order of completion; when all
\* tasks returned no error (the parent not having canceled), every Wait()
\* returns the values in submission order, <<10, 20, ...>>, and a nil error.
C17_ResultsInSubmissionOrder ==
    (kind = "parallelResult")
    => /\ \A i \in Tasks : results[i] \in {0, Yield(i)}
       /\ \A i \in Tasks : taskPc[i] = "exited" /\ ReturnedWith(i, Nil)
                           => results[i] = Yield(i)
       /\ ((\A i \in Tasks : ReturnedWith(i, Nil)) /\ ~ParentWon)
          => /\ waitVals \subseteq {[i \in Tasks |-> Yield(i)]}
             /\ waitVals # {} => waitRet = {Nil}

\* C17 witness: the second task reported before the first, and Wait()
\* returned the values in submission order with a nil error.
C17_Witness ==
    /\ kind = "parallelResult" /\ n >= 2
    /\ Len(arrival) >= 2
    /\ arrival[1] = 2 /\ arrival[2] = 1
    /\ waitVals = {[i \in Tasks |-> Yield(i)]}
    /\ waitRet = {Nil}

\* C21: under fair scheduling with terminating tasks, every future whose
\* constructor has returned eventually becomes done, and every Wait() call
\* eventually returns: either no caller is blocked infinitely often, or calls
\* of Wait() return again and again.
C21_WaitEventuallyReturns ==
    /\ (ctor = "returned") ~> Done
    /\ (waitBlocked > 0) ~> Done
    /\ \/ []<>(waitBlocked = 0)
       \/ []<><<WaitReturn>>_vars

\* C21 witness: every caller blocked in Wait() while the tasks were running;
\* the parent was never canceled, the coordinator committed, and every call
\* has returned.
C21_Witness ==
    /\ kind = "parallel" /\ n >= 2
    /\ parentCause = Unset
    /\ committedBy = "coordinator"
    /\ waitBlocked = 0
    /\ waitReturned = NumWaiters

\* C22: when a task panicked with a value that is itself an error (the parent
\* not having canceled the context first), Wait() returns that very value:
\* for a NewGoture future, and for a NewParallelGoture future when it is the
\* first non-nil report the coordinator received.
C22_ErrorPanicReusedVerbatim ==
    /\ (/\ kind = "single"
        /\ Panicked(1)
        /\ IsError(taskVal[1])
        /\ ~ParentWon)
       => waitRet \subseteq {taskVal[1]}
    /\ \A i \in Tasks :
          (/\ kind = "parallel"
           /\ Panicked(i)
           /\ IsError(taskVal[i])
           /\ taskPc[i] = "exited"
           /\ firstError = taskVal[i]
           /\ ~ParentWon)
          => waitRet \subseteq {taskVal[i]}

\* C23: a running task leaves its body only by its own return or panic: no
\* step of the library, of the parent context or of a caller of Wait() ends,
\* interrupts or removes it, and its own end changes no context; and whatever
\* has happened to the context, a running task can still go on to its end.
C23_TaskNeverForciblyTerminated ==
    /\ [][\A i \in TaskIds :
            taskPc[i] = "running"
            => \/ taskPc'[i] = "running"
               \/ /\ taskPc'[i] \in {"returned", "panicking"}
                  /\ taskHow'[i] \in {"return", "panic"}
                  /\ UNCHANGED <<parentCause, ctxVars, waitVars>>]_vars
    /\ [](\A i \in TaskIds : taskPc[i] = "running" => ENABLED TaskReturn(i, Nil))

\* C23 witness: the parent was canceled, Wait() has returned the cancellation
\* error, one task has ended since and the other one is still running.
C23_Witness ==
    /\ kind = "parallel" /\ n >= 2
    /\ ParentWon
    /\ waitRet = {Canceled}
    /\ waitBlocked = 0
    /\ taskPc[1] = "running"
    /\ taskPc[2] = "exited"

\* C24: cancellation never propagates upward: a step in which the future's
\* cause is committed by the constructor, a task or the coordinator leaves
\* the parent context as it was, and the parent context changes only in a
\* step of its owner, in which no goroutine of the library moves.
C24_NoUpwardPropagation ==
    [][/\ (ctxCause = Unset /\ ctxCause' # Unset /\ committedBy' # "parent")
          => parentCause' = parentCause
       /\ (parentCause' # parentCause)
          => /\ parentCause = Unset
             /\ UNCHANGED <<ctorVars, taskVars, completed, coordVars, waitVars>>]_vars

\* C24 witness: a task's panic was committed as the cause, Wait() returned
\* it, and the parent context is still not done.
C24_Witness ==
    /\ kind = "single"
    /\ Panicked(1)
    /\ committedBy = "task"
    /\ waitReturned > 0
    /\ parentCause = Unset

\* C25: under fair scheduling, once all N tasks of a NewParallelGoture future
\* have returned or panicked, every task goroutine and the coordinator end
\* and stay ended, whether or not the parent was canceled and whether or not
\* Wait() is ever called; until then no such goroutine is stuck: a task
\* goroutine that has to report can send, and the coordinator can receive
\* whenever a report is buffered.
C25_NoGoroutineLeftBlocked ==
    /\ (kind = "parallel" /\ \A i \in Tasks : Finished(i))
       ~> [](Exited = Tasks /\ coordPc \in {"unborn", "exited"})
    /\ [](kind = "parallel" =>
            /\ \A i \in Tasks : taskPc[i] = "returned" => ENABLED ParallelSend(i)
            /\ \A i \in Tasks : taskPc[i] = "panicking" => ENABLED recoverCancelForParallel(i)
            /\ (coordPc = "recv" /\ completed # <<>>) => ENABLED CoordRecv
            /\ coordPc = "commit" => ENABLED CoordCommit)

\* C25 witness: the parent was canceled before the tasks finished, Wait() was
\* never called, and all task goroutines and the coordinator have ended.
C25_Witness ==
    /\ kind = "parallel" /\ n >= 2
    /\ ParentWon
    /\ Exited = Tasks
    /\ coordPc = "exited"
    /\ waitBlocked = 0 /\ waitReturned = 0 /\ waitRet = {}

\* The cause a future of one task commits for the way its task ended, as
\* NewGoture's goroutine computes it: the error returned or made from the
\* panic, or the sentinel after a nil return.
OneTaskCause == SingleCause(Report(1))

\* C26: a NewParallelGoture future of one task and a NewGoture future have
\* the same outcomes.  In both, a cause not set by the parent is OneTaskCause
\* and a cause set by the parent is the parent's, so Wait() returns the
\* translation of one of the two; and in both, each of the two stays
\* possible until the cause is set: the parent can be canceled at any moment
\* and then sets the cause, and the task's goroutines can always take their
\* next step, the last of which sets the cause to OneTaskCause.
C26_ParallelOfOneIsSingle ==
    (kind \in {"single", "parallel"} /\ n = 1 /\ ctor = "returned")
    => /\ (Done /\ ~ParentWon) => (Finished(1) /\ ctxCause = OneTaskCause)
       /\ ParentWon => ctxCause = parentCause
       /\ waitRet \subseteq {WaitResult(parentCause)}
                            \cup (IF Finished(1) THEN {WaitResult(OneTaskCause)} ELSE {})
       /\ (~Done /\ parentCause = Unset)
          => \A c \in ParentCauses : ENABLED (ParentCancel(c) /\ ctxCause' = c)
       /\ taskPc[1] = "running"
          => /\ \A e \in TaskReturns(1) : ENABLED TaskReturn(1, e)
             /\ \A r \in TaskPanics(1) : ENABLED TaskPanic(1, r)
       /\ (kind = "single" /\ ~Done)
          => /\ taskPc[1] # "exited"
             /\ taskPc[1] = "returned"
                => ENABLED (SingleCommit /\ ctxCause' = OneTaskCause)
             /\ taskPc[1] = "panicking"
                => ENABLED (recoverCancel /\ ctxCause' = OneTaskCause)
       /\ (kind = "parallel" /\ ~Done)
          => /\ coordPc # "exited"
             /\ taskPc[1] = "returned" => ENABLED ParallelSend(1)
             /\ taskPc[1] = "panicking" => ENABLED recoverCancelForParallel(1)
             /\ taskPc[1] = "exited"
                => \/ coordPc = "recv" /\ ENABLED CoordRecv
                   \/ /\ coordPc = "commit"
                      /\ ENABLED (CoordCommit /\ ctxCause' = OneTaskCause)

\* C26 witness: a parallel future of one task that panicked with an error
\* value; the coordinator committed that value and Wait() returned it, as
\* NewGoture's recoverCancel would have.
C26_Witness ==
    /\ kind = "parallel" /\ n = 1
    /\ Panicked(1)
    /\ taskVal[1] = TaskErr(1)
    /\ committedBy = "coordinator"
    /\ waitRet = {TaskErr(1)}

\* C27: a constructor step of NewGoture or NewParallelGoture (N >= 1) taken
\* while the parent context is already canceled still starts every task (and
\* the coordinator), and returns a future that is done with the parent's
\* cause, so that Wait() returns at once, and what it returns is the parent's
\* cancellation error.
C27_BornCanceled ==
    [][(/\ ctor = "init"
        /\ ctor' = "returned"
        /\ kind' \in {"single", "parallel"}
        /\ parentCause # Unset)
       => /\ \A i \in 1..n' : taskPc'[i] = "running"
          /\ kind' = "parallel" => coordPc' = "recv"
          /\ ctxCause' = parentCause
          /\ committedBy' = "parent"
          /\ WaitResult(ctxCause') = parentCause]_vars

====
